---- MODULE Spec2Model ----
(***************************************************************************)
(* Model of src/app.py: a Streamlit page over four worksheets              *)
(* (transactions, schedule, rates, members).  Every admin interaction      *)
(* reruns the script: load_data() reads the sheets, the derived views are  *)
(* recomputed, and a pressed button writes to one sheet.                   *)
(*                                                                         *)
(* Representation choices:                                                 *)
(*  - a worksheet is a sequence of rows (records), in sheet order;         *)
(*  - a timestamp is the number of seconds on the wall clock; the code     *)
(*    stores strftime('%Y-%m-%d %H:%M:%S'), a fixed-width zero-padded      *)
(*    text whose lexicographic order is the order of the seconds;          *)
(*  - a rates cell is [ok, v]: ok = TRUE is the text of the integer v,     *)
(*    ok = FALSE is text pd.to_numeric cannot parse;                       *)
(*  - a date is the text typed into the schedule; ToDate parses it;        *)
(*  - the transactions sheet is written by append_rows alone, with integer *)
(*    number and amount and a season without surrounding blanks, so the    *)
(*    to_numeric / str.strip of load_data returns its rows as stored;      *)
(*    display_order holds numbers, so its to_numeric does likewise;        *)
(*  - the schedule's stadium column is read by no computation and is left  *)
(*    out of the rows.                                                     *)
(***************************************************************************)
EXTENDS Integers, Sequences, FiniteSets, TLC

VARIABLES trans,     \* the transactions worksheet
          sched,     \* the schedule worksheet
          rates,     \* the rates worksheet, cells as text
          members,   \* the members worksheet
          now,       \* the wall clock, in seconds
          sess,      \* per admin session: where its script run is, the numbers
                     \* entered in the form, and the new_rows it built
          edits      \* how many settings edits (Tabs 4 and 5) were saved so far

vars == <<trans, sched, rates, members, now, sess, edits>>

\* ---------------------------------------------------------------- bounds
MaxTrans == 2
MaxEdits == 1
MaxTime == 2
MaxRates == 2

\* ------------------------------------------------------ program constants
Sentinel == 9999
Fallback == 1000

ALL == "ALL"
CurrentYear == "2026"
Admins == {"a1", "a2"}
Names == <<"A", "B">>

\* seasons in ascending text order (sorted() of the season strings)
SeasonOrder == <<"2025", "2026">>

\* ------------------------------------------------------- generic helpers
Range(s) == {s[i] : i \in 1..Len(s)}

RECURSIVE SumSeq(_)
SumSeq(s) == IF s = <<>> THEN 0 ELSE Head(s) + SumSeq(Tail(s))

\* df[mask]: the rows of s whose entry in the boolean mask is TRUE, in order
RECURSIVE Filter(_, _)
Filter(s, mask) ==
    IF s = <<>> THEN <<>>
    ELSE IF Head(mask) THEN <<Head(s)>> \o Filter(Tail(s), Tail(mask))
         ELSE Filter(Tail(s), Tail(mask))

\* the positions 1..Len(k) ordered by ascending key k, equal keys in position
\* order: position n goes behind every position whose key is not greater
RECURSIVE ArgSort(_)
ArgSort(k) ==
    IF k = <<>> THEN <<>>
    ELSE LET n == Len(k)
             before == ArgSort(SubSeq(k, 1, n - 1))
             notGreater == {j \in 1..Len(before) : k[before[j]] <= k[n]}
             at == Cardinality(notGreater)
         IN SubSeq(before, 1, at) \o <<n>> \o SubSeq(before, at + 1, Len(before))

\* DataFrame.sort_values on a column with values k: ascending, rows with equal
\* values keep their order
SortValues(s, k) == [i \in 1..Len(s) |-> s[ArgSort(k)[i]]]

Key(r) == <<r.season, r.match_id, r.name>>

\* keep='first' in place of keep='last'
DropDuplicatesFirst(s) ==
    LET idx == {i \in 1..Len(s) : \A j \in 1..(i - 1) : Key(s[j]) # Key(s[i])}
        RECURSIVE Pick(_)
        Pick(i) == IF i > Len(s) THEN <<>>
                   ELSE IF i \in idx THEN <<s[i]>> \o Pick(i + 1) ELSE Pick(i + 1)
    IN Pick(1)

\* DataFrame.drop_duplicates(subset=[season, match_id, name], keep='last')
DropDuplicatesLast(s) ==
    LET idx == {i \in 1..Len(s) : \A j \in (i + 1)..Len(s) : Key(s[j]) # Key(s[i])}
        RECURSIVE Pick(_)
        Pick(i) == IF i > Len(s) THEN <<>>
                   ELSE IF i \in idx THEN <<s[i]>> \o Pick(i + 1) ELSE Pick(i + 1)
    IN Pick(1)

\* -------------------------------------------------------------- load_data
Cell(n) == [ok |-> TRUE, v |-> n]
BadCell == [ok |-> FALSE, v |-> 0]

\* pd.to_numeric(errors='coerce').fillna(0).astype(int)
ToNumericInt(c) == IF c.ok THEN c.v ELSE 0

LoadRates(rs) ==
    [i \in 1..Len(rs) |->
        [min_rank |-> ToNumericInt(rs[i].min_rank),
         max_rank |-> ToNumericInt(rs[i].max_rank),
         amount   |-> ToNumericInt(rs[i].amount)]]

\* a members sheet without the is_ranking_target column gets "TRUE" in every row
LoadMembers(m) ==
    [i \in 1..Len(m.rows) |->
        IF m.has_target THEN m.rows[i]
        ELSE [m.rows[i] EXCEPT !.is_ranking_target = "TRUE"]]

\* ------------------------------------------------------- calculate_amount
\* min_r < number in place of min_r <= number
RECURSIVE ScanRatesStrict(_, _)
ScanRatesStrict(number, df_rates) ==
    IF df_rates = <<>> THEN Fallback
    ELSE IF Head(df_rates).min_rank < number /\ number <= Head(df_rates).max_rank
         THEN Head(df_rates).amount
         ELSE ScanRatesStrict(number, Tail(df_rates))

RECURSIVE ScanRates(_, _)
ScanRates(number, df_rates) ==
    IF df_rates = <<>> THEN Fallback
    ELSE IF Head(df_rates).min_rank <= number /\ number <= Head(df_rates).max_rank
         THEN Head(df_rates).amount
         ELSE ScanRates(number, Tail(df_rates))

calculate_amount(number, df_rates) ==
    IF number = 0 THEN 0 ELSE ScanRates(number, df_rates)

\* ---------------------------------------------------------- season filter
\* sorted(df_sched['season'].unique(), reverse=True)
season_list(sc) ==
    LET n == Len(SeasonOrder)
        desc == [i \in 1..n |-> SeasonOrder[n + 1 - i]]
    IN Filter(desc, [i \in 1..n |-> \E j \in 1..Len(sc) : sc[j].season = desc[i]])

season_options(sc) == <<ALL>> \o season_list(sc)

current_trans(sel, tr) ==
    IF sel = ALL THEN tr ELSE Filter(tr, [i \in 1..Len(tr) |-> tr[i].season = sel])

current_sched(sel, sc) ==
    LET sl == season_list(sc)
        latest == IF sl # <<>> THEN sl[1] ELSE CurrentYear
    IN IF sc = <<>> THEN <<>>
       ELSE IF sel = ALL THEN Filter(sc, [i \in 1..Len(sc) |-> sc[i].season = latest])
       ELSE Filter(sc, [i \in 1..Len(sc) |-> sc[i].season = sel])

\* ---------------------------------------------------------- schedule join
\* dates the schedule uses, in calendar order; any other text does not parse
DateOrder == <<"2025/4/1", "2025/5/1", "2026/4/1">>
NaT == 0

\* pd.to_datetime(errors='coerce').dt.date: the day's rank in the calendar, or NaT
ToDate(d) ==
    IF \E i \in 1..Len(DateOrder) : DateOrder[i] = d
    THEN CHOOSE i \in 1..Len(DateOrder) : DateOrder[i] = d
    ELSE NaT

Enrich(r, opp, d) ==
    [date |-> ToDate(d), season |-> r.season, match_id |-> r.match_id,
     name |-> r.name, number |-> r.number, amount |-> r.amount,
     timestamp |-> r.timestamp, opponent |-> opp]

\* how='inner' in place of how='left': an unmatched transaction makes no row
JoinRowInner(r, sc) ==
    LET ms == Filter(sc, [i \in 1..Len(sc) |->
                             sc[i].season = r.season /\ sc[i].section = r.match_id])
    IN [i \in 1..Len(ms) |-> Enrich(r, ms[i].opponent, ms[i].date)]

\* the rows pd.merge(how='left') makes of one transaction: one per matching
\* schedule row in schedule order, or one with opponent '-' and its own date
JoinRow(r, sc) ==
    LET ms == Filter(sc, [i \in 1..Len(sc) |->
                             sc[i].season = r.season /\ sc[i].section = r.match_id])
    IN IF ms = <<>> THEN <<Enrich(r, "-", r.date)>>
       ELSE [i \in 1..Len(ms) |-> Enrich(r, ms[i].opponent, ms[i].date)]

RECURSIVE JoinAll(_, _)
JoinAll(tr, sc) ==
    IF tr = <<>> THEN <<>> ELSE JoinRow(Head(tr), sc) \o JoinAll(Tail(tr), sc)

merged_trans(sel, tr, sc) == JoinAll(current_trans(sel, tr), sc)

\* ------------------------------------------------------- Tab 1: ranking
Timestamps(s) == [i \in 1..Len(s) |-> s[i].timestamp]

df_latest(sel, tr) ==
    LET ct == current_trans(sel, tr)
    IN DropDuplicatesLast(SortValues(ct, Timestamps(ct)))

target_members(m) ==
    {r.name : r \in {x \in Range(LoadMembers(m)) : x.is_ranking_target = "TRUE"}}

\* the mask that keeps every row: no restriction to target_members
IsTargetAll(df, m) == [i \in 1..Len(df) |-> TRUE]

\* the mask df['name'].isin(target_members)
IsTarget(df, m) == [i \in 1..Len(df) |-> df[i].name \in target_members(m)]

df_latest_ranked(sel, tr, m) ==
    Filter(df_latest(sel, tr), IsTarget(df_latest(sel, tr), m))

\* the amounts resolved again from the rates sheet as it is now
AmountsRecomputed(s) ==
    [i \in 1..Len(s) |-> calculate_amount(s[i].number, LoadRates(rates))]

\* the amount column of the rows
Amounts(s) == [i \in 1..Len(s) |-> s[i].amount]

\* the mask df['name'] == nm
IsName(df, nm) == [i \in 1..Len(df) |-> df[i].name = nm]

\* groupby('name')['amount'].sum().reset_index(): one row per name present, in
\* name order, then sort_values('amount', ascending=False)
ranking(sel, tr, m) ==
    LET df == df_latest_ranked(sel, tr, m)
        groups == Filter(Names, [g \in 1..Len(Names) |->
                                    \E i \in 1..Len(df) : df[i].name = Names[g]])
        sums == [g \in 1..Len(groups) |->
                    [name |-> groups[g],
                     amount |-> SumSeq(Amounts(Filter(df, IsName(df, groups[g]))))]]
    IN SortValues(sums, [g \in 1..Len(sums) |-> 0 - sums[g].amount])

\* ranking['amount'].sum()
total(sel, tr, m) ==
    LET rk == ranking(sel, tr, m)
    IN SumSeq([g \in 1..Len(rk) |-> rk[g].amount])

\* ------------------------------------------- Tab 1: cumulative and lottery
\* the sort position of a date: calendar order, NaT behind every date
\* (na_position='last')
DateKeys(s) ==
    [i \in 1..Len(s) |-> IF s[i].date = NaT THEN Len(DateOrder) + 1 ELSE s[i].date]

\* sort_values(['date', 'timestamp']): by date, rows of one date by timestamp,
\* rows equal in both in their order
SortByDateTimestamp(s) ==
    LET byTs == SortValues(s, Timestamps(s))
    IN SortValues(byTs, DateKeys(byTs))

df_period_line(sel, tr, sc, m) ==
    LET dedup == DropDuplicatesLast(SortByDateTimestamp(merged_trans(sel, tr, sc)))
    IN Filter(dedup, IsTarget(dedup, m))

\* the amount column itself, without the cumsum
PlainAmount(df) == [i \in 1..Len(df) |-> df[i].amount]

\* groupby('name')['amount'].cumsum(): row i gets the sum of the amounts of
\* the rows of the same name up to and including i
cumulative_amount(df) ==
    [i \in 1..Len(df) |->
        LET upto == SubSeq(df, 1, i)
        IN SumSeq(Amounts(Filter(upto, IsName(upto, df[i].name))))]

df_valid_num(df) ==
    Filter(df, [i \in 1..Len(df) |-> df[i].number > 0 /\ df[i].number # Sentinel])

df_9999(df) == Filter(df, [i \in 1..Len(df) |-> df[i].number = Sentinel])

\* df_9999['name'].value_counts(): the count of one member's rows
count_9999(nm, df) == Cardinality({i \in 1..Len(df_9999(df)) : df_9999(df)[i].name = nm})

\* ------------------------------------------------------ Tab 2: input form
home_games(sel, sc) ==
    LET cs == current_sched(sel, sc)
    IN Filter(cs, [i \in 1..Len(cs) |-> cs[i].type = "Home"])

\* match_dates[section]: the dict keeps the date of the last home game of a section
match_dates(hg, section) ==
    LET last == CHOOSE i \in 1..Len(hg) :
                    /\ hg[i].section = section
                    /\ \A j \in (i + 1)..Len(hg) : hg[j].section # section
    IN hg[last].date

active_mem(m) ==
    LET df == LoadMembers(m)
        act == Filter(df, [i \in 1..Len(df) |-> df[i].is_active = "TRUE"])
    IN SortValues(act, [i \in 1..Len(act) |-> act[i].display_order])

ActiveNames(m) == {r.name : r \in Range(active_mem(m))}

tgt_season(sel) == IF sel # ALL THEN sel ELSE CurrentYear

\* without the num > 0 test: a row for every active member
new_rows_all(am, inputs, date_str, season, sel_match_id, df_rates, now_str) ==
    [i \in 1..Len(am) |->
        [date      |-> date_str,
         season    |-> season,
         match_id  |-> sel_match_id,
         name      |-> am[i].name,
         number    |-> inputs[am[i].name],
         amount    |-> calculate_amount(inputs[am[i].name], df_rates),
         timestamp |-> now_str]]

\* the rows the submit handler builds: one per active member, in form order,
\* whose entered number is > 0
new_rows(am, inputs, date_str, season, sel_match_id, df_rates, now_str) ==
    LET withNum == Filter(am, [i \in 1..Len(am) |-> inputs[am[i].name] > 0])
    IN [i \in 1..Len(withNum) |->
           [date      |-> date_str,
            season    |-> season,
            match_id  |-> sel_match_id,
            name      |-> withNum[i].name,
            number    |-> inputs[withNum[i].name],
            amount    |-> calculate_amount(inputs[withNum[i].name], df_rates),
            timestamp |-> now_str]]

\* a session between script runs: nothing entered, nothing built
Idle == [pc |-> "idle", inputs |-> <<>>, rows |-> <<>>]

PendingRows ==
    LET RECURSIVE Cnt(_)
        Cnt(S) == IF S = {} THEN 0
                  ELSE LET a == CHOOSE x \in S : TRUE
                       IN Len(sess[a].rows) + Cnt(S \ {a})
    IN Cnt(Admins)

\* numbers an admin types into st.number_input(min_value=0, step=1)
InputNums == {0, 1, Sentinel}

\* The submit button is pressed: the script reruns, load_data() reads the
\* sheets, and the handler stamps now_str and builds new_rows (lines 410-421).
SubmitStamp(a, sel, i, inputs) ==
    LET hg == home_games(sel, sched)
        sel_match_id == hg[i].section
        rows == new_rows(active_mem(members), inputs, match_dates(hg, sel_match_id),
                         tgt_season(sel), sel_match_id, LoadRates(rates), now)
    IN /\ sess[a].pc = "idle"
       /\ Len(trans) + PendingRows + Len(rows) <= MaxTrans
       /\ sess' = [sess EXCEPT ![a] = [pc |-> "stamped", inputs |-> inputs,
                                        rows |-> rows]]
       /\ UNCHANGED <<trans, sched, rates, members, now, edits>>

\* lines 423-429: append_rows(new_rows) and time.sleep(1), or the warning when
\* no number was entered
SubmitAppend(a) ==
    /\ sess[a].pc = "stamped"
    /\ IF sess[a].rows # <<>>
       THEN /\ trans' = trans \o sess[a].rows
            /\ sess' = [sess EXCEPT ![a] = [pc |-> "sleep", inputs |-> <<>>,
                                             rows |-> <<>>]]
       ELSE /\ trans' = trans
            /\ sess' = [sess EXCEPT ![a] = Idle]
    /\ UNCHANGED <<sched, rates, members, now, edits>>

\* a second passes; a session in time.sleep(1) reruns its script
Tick ==
    /\ now < MaxTime
    /\ now' = now + 1
    /\ sess' = [a \in Admins |-> IF sess[a].pc = "sleep" THEN Idle ELSE sess[a]]
    /\ UNCHANGED <<trans, sched, rates, members, edits>>

\* -------------------------------------------------------- Tab 3: history
\* the first option of the member selectbox: no restriction by name
Everyone == "EVERYONE"

df_for_history(selected_member, mt) ==
    IF selected_member # Everyone THEN Filter(mt, IsName(mt, selected_member))
    ELSE mt

\* sort_values(['date', 'timestamp'], ascending=[False, False]): latest date
\* first, rows of one date latest timestamp first, NaT behind every date
sorted_df(df) ==
    LET byTs == SortValues(df, [i \in 1..Len(df) |-> 0 - df[i].timestamp])
    IN SortValues(byTs, [i \in 1..Len(byTs) |->
                            IF byTs[i].date = NaT THEN 1 ELSE 0 - byTs[i].date])

\* --------------------------------------------------- Tab 4: add a schedule
Sched(season, section, date, opponent, type) ==
    [season |-> season, section |-> section, date |-> date,
     opponent |-> opponent, type |-> type]

\* rows an admin adds (section, date and opponent are required non-empty)
ScheduleMenu ==
    {Sched("2025", "S1", "2025/4/1", "Y", "Home"),
     Sched("2026", "S1", "2026/4/1", "X", "Home"),
     Sched("2026", "S2", "TBD", "Y", "Away")}

AddSchedule(a, row) ==
    /\ sess[a].pc = "idle"
    /\ edits < MaxEdits
    /\ edits' = edits + 1
    /\ row.section # "" /\ row.date # "" /\ row.opponent # ""
    /\ sched' = Append(sched, row)
    /\ UNCHANGED <<trans, rates, members, now, sess>>

\* ------------------------------------------------------- Tab 5: settings
Rate(lo, hi, amt) == [min_rank |-> lo, max_rank |-> hi, amount |-> amt]

\* edited_rates.astype(str): every cell is written as the text of its number
RatesToSheet(edited) ==
    [i \in 1..Len(edited) |->
        [min_rank |-> Cell(edited[i].min_rank),
         max_rank |-> Cell(edited[i].max_rank),
         amount   |-> Cell(edited[i].amount)]]

\* tables an admin leaves in the rates editor
RateMenu ==
    {<<Rate(1, 3, 500)>>,
     <<Rate(1, 1, 200), Rate(1, Sentinel, -100)>>}

RatesSave(a, edited) ==
    /\ sess[a].pc = "idle"
    /\ edits < MaxEdits
    /\ edits' = edits + 1
    /\ rates' = RatesToSheet(edited)
    /\ UNCHANGED <<trans, sched, members, now, sess>>

Member(name, active, order, target) ==
    [name |-> name, is_active |-> active, display_order |-> order,
     is_ranking_target |-> target]

\* tables an admin leaves in the members editor
MemberMenu ==
    {<<Member("A", "TRUE", 1, "TRUE"), Member("B", "TRUE", 2, "TRUE")>>,
     <<Member("A", "TRUE", 2, "TRUE"), Member("B", "TRUE", 1, "FALSE")>>,
     <<Member("A", "TRUE", 1, "TRUE"), Member("B", "FALSE", 2, "TRUE")>>}

\* the editor shows df_mem as loaded, so the saved sheet has every column
MembersSave(a, edited) ==
    /\ sess[a].pc = "idle"
    /\ edits < MaxEdits
    /\ edits' = edits + 1
    /\ members' = [has_target |-> TRUE, rows |-> edited]
    /\ UNCHANGED <<trans, sched, rates, now, sess>>

\* ------------------------------------------------------- specification
\* a deployment with last year's schedule, one rate tier and a members sheet
\* that predates the is_ranking_target column
Init ==
    /\ trans = <<>>
    /\ sched = <<Sched("2025", "S1", "2025/5/1", "X", "Home")>>
    /\ rates = RatesToSheet(<<Rate(1, 3, 500)>>)
    /\ members = [has_target |-> FALSE,
                  rows |-> <<Member("A", "TRUE", 1, ""), Member("B", "TRUE", 2, "")>>]
    /\ now = 1
    /\ sess = [a \in Admins |-> Idle]
    /\ edits = 0

Submit ==
    \E a \in Admins :
        \E sel \in Range(season_options(sched)) :
            \E i \in 1..Len(home_games(sel, sched)) :
                \E inputs \in [ActiveNames(members) -> InputNums] :
                    SubmitStamp(a, sel, i, inputs)

Append_ == \E a \in Admins : SubmitAppend(a)

Schedule == \E a \in Admins : \E row \in ScheduleMenu : AddSchedule(a, row)

SaveRates == \E a \in Admins : \E edited \in RateMenu : RatesSave(a, edited)

SaveMembers == \E a \in Admins : \E edited \in MemberMenu : MembersSave(a, edited)

Next == Submit \/ Append_ \/ Tick \/ Schedule \/ SaveRates \/ SaveMembers

Spec == Init /\ [][Next]_vars

\* ------------------------------------------- specification for the rates
\* what a rates worksheet can hold: any text in the rank cells
RankCells == {Cell(1), Cell(2), BadCell}
AmountCells == {Cell(500), Cell(700)}
RawRateRows == [min_rank : RankCells, max_rank : RankCells, amount : AmountCells]
RawRateTables == UNION {[1..n -> RawRateRows] : n \in 0..MaxRates}

\* numbers entered for member A while B's field stays 0
RateNums == {0, 1, 2, 3, Sentinel - 1, Sentinel}

InitRates ==
    /\ trans = <<>>
    /\ sched = <<Sched("2025", "S1", "2025/5/1", "X", "Home")>>
    /\ rates \in RawRateTables
    /\ members = [has_target |-> FALSE,
                  rows |-> <<Member("A", "TRUE", 1, ""), Member("B", "TRUE", 2, "")>>]
    /\ now = 1
    /\ sess = [a \in Admins |-> Idle]
    /\ edits = 0

Resolve ==
    \E n \in RateNums :
        SubmitStamp("a1", "2025", 1,
                    [x \in ActiveNames(members) |-> IF x = "A" THEN n ELSE 0])

NextRates == Resolve \/ SubmitAppend("a1")

SpecRates == InitRates /\ [][NextRates]_vars

\* =================================================================
\* Properties
\* =================================================================
\* what the season selector can be set to
Selectable == Range(season_options(sched))

KeysOf(rows) == {Key(rows[i]) : i \in 1..Len(rows)}

RowsOfKey(k, rows) == {i \in 1..Len(rows) : Key(rows[i]) = k}

\* the greatest timestamp among the rows of key k
LatestTs(k, rows) ==
    CHOOSE t \in {rows[i].timestamp : i \in RowsOfKey(k, rows)} :
        \A i \in RowsOfKey(k, rows) : rows[i].timestamp <= t

\* C1: in the ranking's canonicalization every key of the selected rows keeps
\* exactly one row, a row of the ledger carrying the key's greatest timestamp,
\* and no other key appears.
C1_LatestRowPerKey ==
    \A sel \in Selectable :
        LET ct == current_trans(sel, trans)
            dl == df_latest(sel, trans)
        IN /\ KeysOf(dl) = KeysOf(ct)
           /\ \A k \in KeysOf(ct) :
                /\ Cardinality(RowsOfKey(k, dl)) = 1
                /\ \A i \in RowsOfKey(k, dl) :
                     /\ \E j \in RowsOfKey(k, ct) : ct[j] = dl[i]
                     /\ dl[i].timestamp = LatestTs(k, ct)

\* a key has an older and a newer row, the newer one appended first
C1_Witness ==
    \E i, j \in 1..Len(trans) :
        /\ i < j
        /\ Key(trans[i]) = Key(trans[j])
        /\ trans[i].timestamp > trans[j].timestamp
        /\ trans[i].number # trans[j].number

\* C2: two admins have stamped submissions in flight; whichever of the two
\* append_rows calls lands first, canonicalization keeps the same rows (the
\* latest-stamped row of every key), also when both were stamped in one second.
C2_SurvivorIndependentOfAppendOrder ==
    \A a, b \in Admins :
        (a # b /\ sess[a].pc = "stamped" /\ sess[b].pc = "stamped") =>
            \A sel \in {ALL} \cup Range(SeasonOrder) :
                Range(df_latest(sel, trans \o sess[a].rows \o sess[b].rows)) =
                Range(df_latest(sel, trans \o sess[b].rows \o sess[a].rows))

Permute(rows, p) == [i \in 1..Len(rows) |-> rows[p[i]]]

\* the sum, over the keys of eligible members, of the amount of a row of the key
\* that carries the key's greatest timestamp
CanonicalSum(rows, m) ==
    LET RECURSIVE Sum(_)
        Sum(K) ==
            IF K = {} THEN 0
            ELSE LET k == CHOOSE x \in K : TRUE
                     i == CHOOSE x \in RowsOfKey(k, rows) :
                              rows[x].timestamp = LatestTs(k, rows)
                 IN rows[i].amount + Sum(K \ {k})
    IN Sum({k \in KeysOf(rows) : k[3] \in target_members(m)})

\* C3: the grand total is the sum of the amounts of the canonical rows of the
\* selected season whose member is ranking-eligible, whatever the order of the
\* ledger's rows.
C3_TotalIsCanonicalSumInAnyOrder ==
    \A sel \in Selectable :
        \A p \in Permutations(1..Len(trans)) :
            total(sel, Permute(trans, p), members) =
                CanonicalSum(current_trans(sel, trans), members)

\* the rows of the rates sheet whose bounds are both numeric
WellFormed(rs) ==
    Filter(rs, [i \in 1..Len(rs) |-> rs[i].min_rank.ok /\ rs[i].max_rank.ok])

\* the entries of df whose interval contains n
Containing(n, df) == {i \in 1..Len(df) : df[i].min_rank <= n /\ n <= df[i].max_rank}

\* the amount of the first entry in row order that contains n, 1000 without one
FirstContaining(n, df) ==
    IF n = 0 THEN 0
    ELSE IF Containing(n, df) = {} THEN Fallback
    ELSE df[CHOOSE i \in Containing(n, df) : \A j \in Containing(n, df) : i <= j].amount

StampedRows == UNION {Range(sess[a].rows) : a \in Admins}

\* C4: calculate_amount(0) is 0 and, for 1 <= n <= 9998, the amount of the first
\* entry in row order whose interval contains n, or 1000 when none does; the
\* rows a submission builds and appends carry that amount.
C4_FirstContainingEntry ==
    LET df == LoadRates(rates)
    IN /\ \A n \in RateNums \ {Sentinel} :
            calculate_amount(n, df) = FirstContaining(n, df)
       /\ \A r \in StampedRows \cup Range(trans) :
            r.number # Sentinel => r.amount = FirstContaining(r.number, df)

\* an appended number lies in two overlapping entries with different amounts
C4_Witness ==
    \E r \in Range(trans) :
        LET df == LoadRates(rates)
        IN /\ r.number \in 1..(Sentinel - 1)
           /\ WellFormed(rates) = rates
           /\ \E i, j \in Containing(r.number, df) :
                i < j /\ df[i].amount # df[j].amount /\ r.amount = df[i].amount

\* C5: a rates row with a non-numeric min_rank or max_rank is skipped: every
\* amount resolved from the loaded sheet is the amount resolved from the sheet
\* without its malformed rows.
C5_MalformedRowsSkipped ==
    \A r \in StampedRows \cup Range(trans) :
        r.amount = calculate_amount(r.number, LoadRates(WellFormed(rates)))

AnySeason == {ALL} \cup Range(SeasonOrder)

TotalNow(sel) == total(sel, trans, members)

PeriodLineNow(sel) == df_period_line(sel, trans, sched, members)

CumulativeNow(sel) == cumulative_amount(PeriodLineNow(sel))

Stamps(a) == sess[a].pc = "idle" /\ sess'[a].pc = "stamped"

Appends(a) == sess[a].pc = "stamped" /\ sess'[a].pc # "stamped"

\* the last cumulative point of member nm, 0 without a point
LastPoint(nm, df, cum) ==
    LET idx == {i \in 1..Len(df) : df[i].name = nm}
    IN IF idx = {} THEN 0
       ELSE cum[CHOOSE i \in idx : \A j \in idx : j <= i]

\* the sum of the amounts stored in the rows of member nm
StoredSum(nm, df) ==
    LET RECURSIVE Sum(_)
        Sum(i) == IF i = 0 THEN 0
                  ELSE (IF df[i].name = nm THEN df[i].amount ELSE 0) + Sum(i - 1)
    IN Sum(Len(df))

AllStoredSum(df) == StoredSum(Names[1], df) + StoredSum(Names[2], df)

\* C6: a row's amount is resolved from the rates sheet as it is when the row is
\* submitted and reaches the ledger unchanged; no later step changes the amount
\* of a ledger row, a replacement of the rates sheet leaves the ledger as it
\* is, and what a row adds to the ranking total and to the cumulative series
\* is the amount stored in it.
C6_AmountFrozenAtSubmission ==
    /\ [](\A sel \in AnySeason :
            /\ TotalNow(sel) = AllStoredSum(df_latest_ranked(sel, trans, members))
            /\ \A nm \in Range(Names) :
                 LastPoint(nm, PeriodLineNow(sel), CumulativeNow(sel)) =
                     StoredSum(nm, PeriodLineNow(sel)))
    /\ [][/\ \A a \in Admins :
               Stamps(a) =>
                   \A i \in 1..Len(sess'[a].rows) :
                       sess'[a].rows[i].amount =
                           calculate_amount(sess'[a].rows[i].number, LoadRates(rates))
          /\ \A a \in Admins : Appends(a) => trans' = trans \o sess[a].rows
          /\ \A i \in 1..Len(trans) :
               i <= Len(trans') /\ trans'[i].amount = trans[i].amount
          /\ rates' # rates => trans' = trans]_vars

\* a ledger row keeps an amount the present rates sheet would not give it
C6_Witness ==
    \E r \in Range(trans) :
        /\ r.amount # calculate_amount(r.number, LoadRates(rates))
        /\ r.name \in target_members(members)

\* C7: every step leaves the rows already in the ledger in place and unchanged;
\* only the append of a submission adds rows, at the end, exactly one per
\* member whose entered number is > 0 (none when no number is > 0).
C7_LedgerAppendOnly ==
    [][/\ Len(trans') >= Len(trans)
       /\ SubSeq(trans', 1, Len(trans)) = trans
       /\ (\A a \in Admins : ~Appends(a)) => trans' = trans
       /\ \A a \in Admins :
            Appends(a) =>
                LET entered == {n \in DOMAIN sess[a].inputs : sess[a].inputs[n] > 0}
                    added == SubSeq(trans', Len(trans) + 1, Len(trans'))
                IN /\ Len(added) = Cardinality(entered)
                   /\ \A n \in entered :
                        \E i \in 1..Len(added) :
                            added[i].name = n /\ added[i].number = sess[a].inputs[n]]_vars

\* the ledger has rows, a settings edit was saved, and a submission with no
\* number entered is about to be handled
C7_Witness ==
    /\ Len(trans) > 0
    /\ edits > 0
    /\ \E a \in Admins :
         /\ sess[a].pc = "stamped"
         /\ DOMAIN sess[a].inputs # {}
         /\ \A n \in DOMAIN sess[a].inputs : sess[a].inputs[n] = 0

\* C8: the rows behind the missed-draw count and the lottery statistics are the
\* canonical ones: every row kept carries its key's greatest timestamp, and a
\* member's missed-draw count is the number of its keys whose latest row has
\* number 9999 (between the keys all of whose latest rows are 9999 and the keys
\* one of whose latest rows is 9999, when rows tie).
C8_MissedDrawsFromLatestRows ==
    \A sel \in Selectable :
        LET ct == current_trans(sel, trans)
            df == PeriodLineNow(sel)
            latest(k) == {i \in RowsOfKey(k, ct) : ct[i].timestamp = LatestTs(k, ct)}
        IN /\ \A i \in 1..Len(df) : df[i].timestamp = LatestTs(Key(df[i]), ct)
           /\ \A nm \in target_members(members) :
                /\ count_9999(nm, df) >=
                     Cardinality({k \in KeysOf(ct) :
                         k[3] = nm /\ \A i \in latest(k) : ct[i].number = Sentinel})
                /\ count_9999(nm, df) <=
                     Cardinality({k \in KeysOf(ct) :
                         k[3] = nm /\ \E i \in latest(k) : ct[i].number = Sentinel})

\* x comes before y in (date, timestamp) order, a row without a date last
LessDateTimestamp(x, y) ==
    \/ x.date # NaT /\ y.date = NaT
    \/ x.date # NaT /\ y.date # NaT /\ x.date < y.date
    \/ x.date = y.date /\ x.timestamp < y.timestamp

\* a member's points are in (date, timestamp) order and never go down
NonDecreasing(df, cum) ==
    \A i, j \in 1..Len(df) :
        (i < j /\ df[i].name = df[j].name) =>
            /\ ~LessDateTimestamp(df[j], df[i])
            /\ cum[i] <= cum[j]

\* C9 as claimed: for every ledger the submissions produce, every member's
\* cumulative_amount series in (date, timestamp) order is non-decreasing.
C9_CumulativeNonDecreasing ==
    \A sel \in Selectable : NonDecreasing(PeriodLineNow(sel), CumulativeNow(sel))

\* C9 as amended: the series is non-decreasing when no ledger row has a
\* negative amount.
C9_NonDecreasingWithoutNegativeAmounts ==
    (\A r \in Range(trans) : r.amount >= 0) => C9_CumulativeNonDecreasing

\* a member has two points, the later one higher, on a ledger without negative
\* amounts
C9_Witness ==
    /\ \A r \in Range(trans) : r.amount >= 0
    /\ \E sel \in Selectable :
         \E i, j \in 1..Len(PeriodLineNow(sel)) :
            /\ i < j
            /\ PeriodLineNow(sel)[i].name = PeriodLineNow(sel)[j].name
            /\ PeriodLineNow(sel)[i].amount > PeriodLineNow(sel)[j].amount
            /\ CumulativeNow(sel)[i] < CumulativeNow(sel)[j]

SameSubmission(e, r) ==
    /\ e.season = r.season /\ e.match_id = r.match_id /\ e.name = r.name
    /\ e.number = r.number /\ e.amount = r.amount /\ e.timestamp = r.timestamp

MatchesOf(r) == {i \in 1..Len(sched) :
                    sched[i].season = r.season /\ sched[i].section = r.match_id}

\* C10: the join keeps every transaction; a transaction with matching schedule
\* rows gets, per matching row, that row's opponent and date; a transaction with
\* none gets opponent "-" and keeps its own date; the join makes no other row.
C10_LeftJoinOnSeasonAndSection ==
    \A sel \in Selectable :
        LET ct == current_trans(sel, trans)
            mt == merged_trans(sel, trans, sched)
        IN /\ \A i \in 1..Len(ct) :
                IF MatchesOf(ct[i]) = {}
                THEN \E j \in 1..Len(mt) :
                        /\ SameSubmission(mt[j], ct[i])
                        /\ mt[j].opponent = "-"
                        /\ mt[j].date = ToDate(ct[i].date)
                ELSE \A k \in MatchesOf(ct[i]) :
                        \E j \in 1..Len(mt) :
                            /\ SameSubmission(mt[j], ct[i])
                            /\ mt[j].opponent = sched[k].opponent
                            /\ mt[j].date = ToDate(sched[k].date)
           /\ \A j \in 1..Len(mt) :
                \E i \in 1..Len(ct) :
                    /\ SameSubmission(mt[j], ct[i])
                    /\ IF MatchesOf(ct[i]) = {}
                       THEN mt[j].opponent = "-" /\ mt[j].date = ToDate(ct[i].date)
                       ELSE \E k \in MatchesOf(ct[i]) :
                               /\ mt[j].opponent = sched[k].opponent
                               /\ mt[j].date = ToDate(sched[k].date)

\* one transaction has no schedule row, another has one whose date differs
\* from the date stored in the transaction
C10_Witness ==
    /\ \E r \in Range(trans) : MatchesOf(r) = {}
    /\ \E r \in Range(trans) :
         \E k \in MatchesOf(r) : ToDate(sched[k].date) # ToDate(r.date)

\* the members that count: those flagged "TRUE", or every listed member when
\* the sheet has no is_ranking_target column
EligibleNames ==
    IF members.has_target
    THEN {members.rows[i].name :
             i \in {j \in 1..Len(members.rows) :
                        members.rows[j].is_ranking_target = "TRUE"}}
    ELSE {members.rows[i].name : i \in 1..Len(members.rows)}

HistoryNow(sel, who) ==
    sorted_df(df_for_history(who, merged_trans(sel, trans, sched)))

\* C11: the ranking, its total, the cumulative series, the lottery statistics
\* and the missed-draw counts are made of the rows of eligible members and of
\* no other row (a member flagged "FALSE" has no ranking entry, no point, no
\* statistic and a missed-draw count of 0; without an is_ranking_target column
\* every listed member is eligible), while the history view shows every
\* selected transaction, of eligible members or not.
C11_OnlyEligibleMembersCount ==
    \A sel \in Selectable :
        LET ct == current_trans(sel, trans)
            dl == df_latest(sel, trans)
            rk == ranking(sel, trans, members)
            pl == PeriodLineNow(sel)
        IN /\ {rk[g].name : g \in 1..Len(rk)} =
                {dl[i].name : i \in 1..Len(dl)} \cap EligibleNames
           /\ \A g \in 1..Len(rk) : rk[g].amount = StoredSum(rk[g].name, dl)
           /\ TotalNow(sel) =
                SumSeq([i \in 1..Len(dl) |->
                           IF dl[i].name \in EligibleNames THEN dl[i].amount ELSE 0])
           /\ KeysOf(pl) = {k \in KeysOf(ct) : k[3] \in EligibleNames}
           /\ Len(CumulativeNow(sel)) = Len(pl)
           /\ \A r \in Range(df_valid_num(pl)) \cup Range(df_9999(pl)) :
                r.name \in EligibleNames
           /\ \A nm \in Range(Names) \ EligibleNames : count_9999(nm, pl) = 0
           /\ \A i \in 1..Len(ct) :
                /\ \E j \in 1..Len(HistoryNow(sel, Everyone)) :
                      SameSubmission(HistoryNow(sel, Everyone)[j], ct[i])
                /\ \E j \in 1..Len(HistoryNow(sel, ct[i].name)) :
                      SameSubmission(HistoryNow(sel, ct[i].name)[j], ct[i])

\* the members sheet flags B "FALSE" and A "TRUE", and the ledger holds a
\* missed draw of B next to a row of A
C11_Witness ==
    /\ members.has_target
    /\ \E i \in 1..Len(members.rows) :
         members.rows[i].name = "B" /\ members.rows[i].is_ranking_target = "FALSE"
    /\ "A" \in EligibleNames
    /\ \E r \in Range(trans) : r.name = "B" /\ r.number = Sentinel
    /\ \E r \in Range(trans) : r.name = "A"

\* the home games of the schedule that row r joins to on
\* (season, match_id) = (season, section)
HomeEntriesOf(r) == {i \in MatchesOf(r) : sched[i].type = "Home"}

\* C12: every row the input form has appended carries the season of the home
\* game whose section is its match_id, so that it joins to a home game of the
\* schedule on (season, match_id) = (season, section), whatever the season
\* selector was, "ALL" included (schedule rows are never removed, so a row
\* that joined when it was appended joins ever after).
C12_AppendedRowCarriesSeasonOfSelectedEntry ==
    \A r \in Range(trans) : HomeEntriesOf(r) # {}

====
